---- MODULE Spec2Model ----
(***************************************************************************)
(* The schedule execution engine of the backend (backend/scheduler.py)     *)
(* and the MQTT client (backend/mqtt_client.py): the part the scheduler    *)
(* sends commands through, and the client's own connection, subscription   *)
(* registry and dispatch of inbound messages.                              *)
(*                                                                         *)
(* The scheduler is one asyncio task.  Its code runs without interruption  *)
(* between two awaits, so the task's position pc is one of its awaits:     *)
(*   "created"   the task exists and has not run yet (create_task)         *)
(*   "fetch"     awaiting session.execute(select active schedules)         *)
(*   "loop"      inside the for loop, about to evaluate row idx            *)
(*   "commit"    awaiting session.commit() of the event of row idx         *)
(*   "sleep"     awaiting asyncio.sleep(60) after a tick                   *)
(*   "errsleep"  awaiting asyncio.sleep(60) in the loop's except branch    *)
(* stop() and start() run on the same event loop, hence only while the     *)
(* task is suspended at an await; the MQTT network thread flips connected  *)
(* at any time.                                                            *)
(*                                                                         *)
(* The MQTT client is used by two threads: the application calls           *)
(* connect(), disconnect(), register_callback() and publish(), and the     *)
(* network thread of each mqtt.Client runs _on_connect, _on_disconnect and *)
(* _on_message.  Spec and SpecNominal are the scheduler, SpecMqtt is the   *)
(* client with its connections, SpecRouter is the registry and the         *)
(* dispatch on one established connection, SpecPayload the same with every *)
(* kind of payload, SpecMatch is _topic_matches on one registered pattern, *)
(* and SpecApi is the API's command endpoints.                             *)
(***************************************************************************)
EXTENDS Bags, FiniteSets, Integers, Sequences, TLC

(***************************************************************************)
(* Bounds of the model.                                                    *)
(***************************************************************************)
\* local dates the wall clock may move past the date the process booted on
MaxDays == 1
\* a model day holds the minutes 08:00 .. 08:0<LastMinute>
LastMinute == 1
\* disruptions in one behaviour: calls of stop(), storage failures (the fetch or
\* a commit raising) and transport failures (a drop, a publish the transport refuses)
MaxDisruptions == 1
\* calls of connect(), disconnect(), register_callback() and publish() on the
\* MQTT client in one behaviour
MaxCalls == 3
\* events of the transport in one behaviour: drops and inbound messages
MaxEvents == 2

VARIABLES
    running,        \* SchedulerService.running
    task,           \* SchedulerService.task: "none", "alive", "cancelled", "finished"
    pc,             \* the await the task is (or was, when cancelled) suspended at
    executedToday,  \* SchedulerService._executed_today
    lastCheckDate,  \* SchedulerService._last_check_date: <<>> while the attribute is unset
    curDate,        \* current_date of the tick in progress (or of the last one)
    curTime,        \* current_time of that tick
    curWeekday,     \* current_weekday of that tick
    idx,            \* position of the for loop in the fetched rows
    raised,         \* ids of the rows whose evaluation raised in that tick
    prevTick,       \* how the task's tick before that one ended: "none", "done", "failed"
    now,            \* the server's local wall clock, [date, minute]
    bootDate,       \* the local date of the process start
    connected,      \* MQTTClient.connected
    published,      \* bag of the messages handed to the broker
    acEvents,       \* bag of the rows of table ac_events
    disruptions,    \* calls of stop() and storage and transport failures so far
    client,         \* MQTTClient.client: 0 is None, n the n-th mqtt.Client created
    loops,          \* the mqtt.Client objects whose network thread runs (loop_start)
    link,           \* per mqtt.Client, its transport: "closed", "failed" (connect
                    \* raised), "connecting", "refused", "up", "reconnecting"
    callbacks,      \* MQTTClient.callbacks, in the dict's insertion order
    reg,            \* the register_callback call between its assignment and its if
    subscribed,     \* per mqtt.Client, bag of the patterns of its subscribe calls
                    \* since its connection was last acknowledged
    net,            \* per mqtt.Client, where its network thread is in a callback
    dispatched,     \* the handler invocations of _on_message, in order
    registered,     \* the register_callback calls so far: the patterns in the order
                    \* of their first registration, and the last callback of each
    ret,            \* the last call on the MQTT client, what it returned and whether
                    \* it handed a request to the transport
    apiCalls,       \* calls of connect, disconnect, register_callback and publish so far
    netEvents,      \* the drops of the transport and the inbound messages so far,
                    \* and the topic and payload of the last of these messages
    acState,        \* the stored AcState row of each device, None without a row
    response,       \* what the API answered to the request it handled last
    tickTasks       \* the tasks create_task has made of _run_scheduler that have
                    \* neither been cancelled nor returned

\* the state of the scheduler and of the world around it
schedVars == <<running, task, pc, executedToday, lastCheckDate, curDate, curTime,
               curWeekday, idx, raised, prevTick, now, bootDate, acEvents,
               disruptions, tickTasks>>

\* the state of the MQTT client beyond connected and published
mqttVars == <<client, loops, link, callbacks, reg, subscribed, net, dispatched,
              registered, ret, apiCalls, netEvents>>

\* the state the API's endpoints add
apiVars == <<acState, response>>

vars == <<running, task, pc, executedToday, lastCheckDate, curDate, curTime,
          curWeekday, idx, raised, prevTick, now, bootDate, connected, published,
          acEvents, disruptions, client, loops, link, callbacks, reg, subscribed,
          net, dispatched, registered, ret, apiCalls, netEvents, acState, response,
          tickTasks>>

(***************************************************************************)
(* Python values.                                                          *)
(***************************************************************************)
\* an Optional[str] column: <<>> is None, <<s>> is the text s
None == <<>>
Some(s) == <<s>>

DigitChars == <<"0", "1", "2", "3", "4", "5", "6", "7", "8", "9">>
Digit(n) == DigitChars[n + 1]

\* str(n) of a non-negative int, as an f-string formats it
RECURSIVE IntStr(_)
IntStr(n) == IF n < 10 THEN Digit(n) ELSE IntStr(n \div 10) \o Digit(n % 10)

\* a two digit, zero padded field of strftime and of date.__str__
Pad2(n) == Digit((n \div 10) % 10) \o Digit(n % 10)

\* the calendar window of the model: date d is 2024-01-d, and 2024-01-01 is a Monday
DateStr(d) == "2024-01-" \o Pad2(d)
IsoWeekday(d) == ((d - 1) % 7) + 1

\* mutant: the tick goes by the first minute of the day whatever the clock reads
StrftimeFirstMinute(clock) == Pad2(8) \o ":" \o Pad2(0)

\* mutant: the fields are not zero padded
StrftimeUnpadded(clock) == IntStr(8) \o ":" \o IntStr(clock.minute)

\* now.strftime("%H:%M"); the minutes of a model day are those of hour 08
Strftime(clock) == Pad2(8) \o ":" \o Pad2(clock.minute)

\* json.loads on the texts the model stores in schedules.days_of_week
JsonLoads(text) ==
    CASE text = "[]" -> [ok |-> TRUE, value |-> {}]
      [] text = "[1, 2, 3, 4, 5]" -> [ok |-> TRUE, value |-> {1, 2, 3, 4, 5}]
      [] text = "[6, 7]" -> [ok |-> TRUE, value |-> {6, 7}]
      [] OTHER -> [ok |-> FALSE, value |-> {}]

(***************************************************************************)
(* Table schedules.                                                        *)
(***************************************************************************)
ScheduleRows == <<
    [id |-> 1, device_id |-> "ESP32-001", action |-> "on",
     days_of_week |-> Some("[1, 2, 3, 4, 5]"), time |-> "08:00", is_active |-> TRUE],
    [id |-> 2, device_id |-> "ESP32-002", action |-> "off",
     days_of_week |-> Some("[1, 2"), time |-> "08:00", is_active |-> TRUE],
    [id |-> 3, device_id |-> "ESP32-002", action |-> "on",
     days_of_week |-> None, time |-> "08:00", is_active |-> TRUE],
    [id |-> 4, device_id |-> "ESP32-003", action |-> "off",
     days_of_week |-> Some("[]"), time |-> "08:01", is_active |-> TRUE],
    [id |-> 5, device_id |-> "ESP32-003", action |-> "on",
     days_of_week |-> Some(""), time |-> "08:01", is_active |-> TRUE],
    [id |-> 6, device_id |-> "ESP32-001", action |-> "off",
     days_of_week |-> Some("[6, 7]"), time |-> "8:00", is_active |-> TRUE],
    [id |-> 7, device_id |-> "ESP32-001", action |-> "off",
     days_of_week |-> Some("[6, 7]"), time |-> "08:00", is_active |-> FALSE] >>

\* select(Schedule).where(Schedule.is_active == True)
ActiveSchedules == SelectSeq(ScheduleRows, LAMBDA s : s.is_active)

(***************************************************************************)
(* MQTTClient: the part the scheduler uses.                                *)
(***************************************************************************)
\* mutant: publish without the test of self.connected
PublishUnguarded(isConnected, rcOk) == rcOk

\* MQTTClient.publish: False when not connected, else the transport's verdict
Publish(isConnected, rcOk) == isConnected /\ rcOk

\* MQTTClient.send_ac_command: the message it publishes.  rule and date say
\* which schedule and which tick date the message was sent for.
AcCommand(s, date) ==
    [topic |-> s.device_id \o "/ac/command", action |-> s.action,
     rule |-> s.id, date |-> date]

\* the devices the API is asked about
ApiDevices == {"ESP32-001", "ESP32-002"}

\* the mqtt.Client objects of a behaviour: the one the first connect() creates
\* and the one a second connect() replaces it with
ClientIds == {1, 2}

\* the patterns every key of the registry subscribes, one subscribe call each
SubscribeAll(cb) == SetToBag({cb[i].pattern : i \in DOMAIN cb})

\* the broker acknowledges a connect attempt with rc = 0 while nothing is being
\* registered: _on_connect as a whole
OnConnect ==
    /\ ~connected
    /\ connected' = TRUE
    /\ link' = [link EXCEPT ![client] = "up"]
    /\ subscribed' = [subscribed EXCEPT ![client] = SubscribeAll(callbacks)]
    /\ UNCHANGED <<running, task, pc, executedToday, lastCheckDate, curDate,
                   curTime, curWeekday, idx, raised, prevTick, now, bootDate, published,
                   acEvents, disruptions>>
    /\ UNCHANGED <<client, loops, callbacks, reg, net, dispatched, registered,
                   ret, apiCalls, netEvents>>
    /\ UNCHANGED apiVars
    /\ UNCHANGED tickTasks

\* the transport drops and the network thread goes on to reconnect
OnDisconnect ==
    /\ connected
    /\ disruptions < MaxDisruptions
    /\ disruptions' = disruptions + 1
    /\ connected' = FALSE
    /\ link' = [link EXCEPT ![client] = "reconnecting"]
    /\ UNCHANGED <<running, task, pc, executedToday, lastCheckDate, curDate,
                   curTime, curWeekday, idx, raised, prevTick, now, bootDate, published,
                   acEvents>>
    /\ UNCHANGED <<client, loops, callbacks, reg, subscribed, net, dispatched,
                   registered, ret, apiCalls, netEvents>>
    /\ UNCHANGED apiVars
    /\ UNCHANGED tickTasks

(***************************************************************************)
(* MQTTClient: topics, patterns and the registry of callbacks.  A topic or  *)
(* a pattern is the sequence of its characters.                             *)
(***************************************************************************)
\* the patterns registered in the model: "+/s" and "d/#"
PatternSensor == <<"+", "/", "s">>
PatternDevice == <<"d", "/", "#">>
Patterns == {PatternSensor, PatternDevice}

\* the topics of the inbound messages: "d/s", "d/t" and "d"
Topics == {<<"d", "/", "s">>, <<"d", "/", "t">>, <<"d">>}

\* the patterns and topics _topic_matches is tried on: "+/s", "d/#", "d/s",
\* "d/.", "d/s/#", "d/+" and "#" against "d/s", "d/t", "d/.", "s/s", "d/s/t",
\* "d/", "/s", "d/s/" and "d"
MatchPatterns ==
    {<<"+", "/", "s">>, <<"d", "/", "#">>, <<"d", "/", "s">>, <<"d", "/", ".">>,
     <<"d", "/", "s", "/", "#">>, <<"d", "/", "+">>, <<"#">>}
MatchTopics ==
    {<<"d", "/", "s">>, <<"d", "/", "t">>, <<"d", "/", ".">>, <<"s", "/", "s">>,
     <<"d", "/", "s", "/", "t">>, <<"d", "/">>, <<"/", "s">>, <<"d", "/", "s", "/">>,
     <<"d">>}

\* the payload of an inbound message: JSON text, or bytes that are not UTF-8
Payloads == {"json", "undecodable"}

\* the same with text that is UTF-8 and not JSON
PayloadKinds == {"json", "text", "undecodable"}

\* the callbacks registered in the model: a plain function and a coroutine
\* function (asyncio.iscoroutinefunction)
HandleSync == [name |-> "handle_sync", is_async |-> FALSE]
HandleAsync == [name |-> "handle_async", is_async |-> TRUE]
Handlers == {HandleSync, HandleAsync}

\* pattern.replace('+', '[^/]+').replace('#', '.*'), as the atoms of the
\* regular expression: '.' is the expression's any-character atom, every
\* other character of the model's alphabet stands for itself
ReAtom(ch) ==
    CASE ch = "+" -> [kind |-> "notslash+", ch |-> ""]
      [] ch = "#" -> [kind |-> "any*", ch |-> ""]
      [] ch = "." -> [kind |-> "any", ch |-> ""]
      [] OTHER -> [kind |-> "lit", ch |-> ch]

ToRegex(pattern) == [i \in DOMAIN pattern |-> ReAtom(pattern[i])]

\* re.match(f"^{pattern}$", topic) on the atoms re and the characters s
RECURSIVE ReMatch(_, _)
ReMatch(re, s) ==
    IF re = <<>> THEN s = <<>>
    ELSE LET a == Head(re)
             rest == Tail(re)
         IN  CASE a.kind = "lit" ->
                      s # <<>> /\ Head(s) = a.ch /\ ReMatch(rest, Tail(s))
               [] a.kind = "any" ->
                      s # <<>> /\ ReMatch(rest, Tail(s))
               [] a.kind = "notslash+" ->
                      \E k \in 1..Len(s) :
                          /\ \A j \in 1..k : s[j] # "/"
                          /\ ReMatch(rest, SubSeq(s, k + 1, Len(s)))
               [] a.kind = "any*" ->
                      \E k \in 0..Len(s) : ReMatch(rest, SubSeq(s, k + 1, Len(s)))

\* mutant: every pattern matches every topic
TopicMatchesAlways(topic, pattern) ==
    ReMatch(<<[kind |-> "any*", ch |-> ""]>>, topic)

\* MQTTClient._topic_matches
TopicMatches(topic, pattern) == ReMatch(ToRegex(pattern), topic)

\* len(topic.split('/')) and topic.split('/')[0]
TopicParts(topic) == Cardinality({i \in DOMAIN topic : topic[i] = "/"}) + 1
DeviceId(topic) ==
    IF \E i \in DOMAIN topic : topic[i] = "/"
    THEN SubSeq(topic, 1, (CHOOSE i \in DOMAIN topic :
                               topic[i] = "/" /\ \A j \in 1..(i - 1) : topic[j] # "/") - 1)
    ELSE topic

\* mutant: a pattern registered again moves behind the other keys
AssignMovesToEnd(cb, p, h) ==
    Append(SelectSeq(cb, LAMBDA e : e.pattern # p), [pattern |-> p, handler |-> h])

\* mutant: a pattern registered again keeps its first callback
AssignKeepsFirst(cb, p, h) ==
    IF \E i \in DOMAIN cb : cb[i].pattern = p
    THEN cb
    ELSE Append(cb, [pattern |-> p, handler |-> h])

\* self.callbacks[topic_pattern] = callback on a dict: a key that exists keeps
\* its place and gets the new value, a new key goes behind the others
Assign(cb, p, h) ==
    IF \E i \in DOMAIN cb : cb[i].pattern = p
    THEN [i \in DOMAIN cb |->
             IF cb[i].pattern = p THEN [pattern |-> p, handler |-> h] ELSE cb[i]]
    ELSE Append(cb, [pattern |-> p, handler |-> h])

\* the network thread of an mqtt.Client: outside the callbacks of MQTTClient,
\* or inside one of its two for loops over the registry.  pos is the entry the
\* dict iterator yields next, used the size of the dict when the iterator was
\* made, msg the message being resolved.
NoMessage == [id |-> 0, device_id |-> <<>>, topic |-> <<>>, payload |-> "none"]
Idle == [op |-> "idle", pos |-> 0, used |-> 0, msg |-> NoMessage]
Iterating(op, size, msg) == [op |-> op, pos |-> 1, used |-> size, msg |-> msg]

\* no inbound message yet
NoInbound == [topic |-> <<>>, payload |-> "none"]

\* what the calls of register_callback so far have asked for
NoneRegistered ==
    [order |-> <<>>, newest |-> [p \in Patterns \cup MatchPatterns |-> "none"]]
Registering(r, p, h) ==
    [order |-> IF r.newest[p] = "none" THEN Append(r.order, p) ELSE r.order,
     newest |-> [r.newest EXCEPT ![p] = h.name]]

\* register_callback between its assignment and its if
NoReg == [pending |-> FALSE, pattern |-> <<>>]

\* the AC command a caller outside the scheduler publishes
ManualCommand ==
    [topic |-> "ESP32-001/ac/command", action |-> "on", rule |-> 0, date |-> 0]

(***************************************************************************)
(* SchedulerService: helpers of the tick.                                  *)
(***************************************************************************)
\* schedule_today_id = f"{schedule.id}_{current_date}"
ScheduleTodayId(id, date) == IntStr(id) \o "_" \o DateStr(date)

\* mutant: the set is emptied at the head of every tick
RolloverEveryTick(executed, last, date) == [executed |-> {}, last |-> Some(date)]

\* mutant: the new date is recorded and the set is kept
RolloverKeepsSet(executed, last, date) ==
    IF last = None \/ last[1] # date
    THEN [executed |-> executed, last |-> Some(date)]
    ELSE [executed |-> executed, last |-> last]

\* the date-rollover barrier at the head of a tick
Rollover(executed, last, date) ==
    IF last = None \/ last[1] # date
    THEN [executed |-> {}, last |-> Some(date)]
    ELSE [executed |-> executed, last |-> last]

\* truth value of an Optional[str]: None and "" are false
Truthy(opt) == opt # None /\ opt[1] # ""

\* json.loads(schedule.days_of_week) if schedule.days_of_week else []
DaysOfWeek(s) ==
    IF Truthy(s.days_of_week) THEN JsonLoads(s.days_of_week[1])
    ELSE [ok |-> TRUE, value |-> {}]

\* mutant: the test is inverted, the rule is skipped on its own weekdays
WeekdayAppliesInverted(days, weekday) == ~(days # {} /\ weekday \in days)

\* mutant: the test for an empty list is missing
WeekdayAppliesMembersOnly(days, weekday) == weekday \in days

\* mutant: the weekday of the tick is not looked at
WeekdayAppliesAlways(days, weekday) == TRUE

\* the negation of: days_of_week and current_weekday not in days_of_week
WeekdayApplies(days, weekday) == ~(days # {} /\ weekday \notin days)

\* the AcEvent row _execute_schedule adds; date is the tick date it was added on
AcEventRow(s, date) ==
    [device_id |-> s.device_id, action |-> s.action,
     triggered_by |-> "schedule:" \o IntStr(s.id), date |-> date]

\* the wall clock n minutes later
ClockPlus(clock, n) ==
    [date |-> clock.date + ((clock.minute + n) \div (LastMinute + 1)),
     minute |-> (clock.minute + n) % (LastMinute + 1)]

\* asyncio.sleep(60) plus the time the tick itself took: the next tick reads the
\* clock one minute later, or two when the drift carries it over a minute
SleepMinutes == {1, 2}

\* the process boots on a Monday, a Friday, a Saturday or a Sunday of the
\* window, so that two consecutive days are two working days, a working day
\* and a weekend day, two weekend days, or a weekend day and a working day
BootDates == {1, 5, 6, 7}

InHorizon(clock) == clock.date - bootDate <= MaxDays

\* the for loop moves to the row after idx, or the tick ends and the task sleeps
NextRow ==
    /\ idx' = idx + 1
    /\ pc' = IF idx + 1 > Len(ActiveSchedules) THEN "sleep" ELSE "loop"

\* mutant: the try is around the for loop, a raising row ends the tick
RowRaisedEndsTick(id) ==
    /\ raised' = raised \cup {id}
    /\ idx' = idx
    /\ pc' = "errsleep"

\* the for loop's except branch: the failure of row id is logged and the loop
\* goes on with the next row
RowRaised(id) ==
    /\ raised' = raised \cup {id}
    /\ NextRow

\* the API before its first request, on a database without AcState rows
NoResponse == [seq |-> 0, endpoint |-> "none", device_id |-> "", status |-> 0]
ApiFresh ==
    /\ acState = [d \in ApiDevices |-> None]
    /\ response = NoResponse

\* MQTTClient.__init__
MqttFresh ==
    /\ client = 0
    /\ loops = {}
    /\ link = [c \in ClientIds |-> "closed"]
    /\ callbacks = <<>>
    /\ reg = NoReg
    /\ subscribed = [c \in ClientIds |-> EmptyBag]
    /\ net = [c \in ClientIds |-> Idle]
    /\ dispatched = <<>>
    /\ registered = NoneRegistered
    /\ ret = [op |-> "none", value |-> FALSE, handed |-> FALSE]
    /\ apiCalls = 0
    /\ netEvents = [drops |-> 0, messages |-> 0, inbound |-> NoInbound]
    /\ ApiFresh

\* the MQTT client as the scheduler finds it: connect() has been called at the
\* start of the process and the transport is in state first.  The scheduler
\* never reads the registry, which stays empty here.
MqttStarted(first) ==
    /\ client = 1
    /\ loops = {1}
    /\ link = [c \in ClientIds |-> IF c = 1 THEN first ELSE "closed"]
    /\ callbacks = <<>>
    /\ reg = NoReg
    /\ subscribed = [c \in ClientIds |-> EmptyBag]
    /\ net = [c \in ClientIds |-> Idle]
    /\ dispatched = <<>>
    /\ registered = NoneRegistered
    /\ ret = [op |-> "connect", value |-> TRUE, handed |-> FALSE]
    /\ apiCalls = 1
    /\ netEvents = [drops |-> 0, messages |-> 0, inbound |-> NoInbound]
    /\ ApiFresh

(***************************************************************************)
(* SchedulerService: operations.                                           *)
(***************************************************************************)
Init ==
    /\ running = FALSE
    /\ task = "none"
    /\ pc = "none"
    /\ executedToday = {}
    /\ lastCheckDate = None
    /\ curDate = 0
    /\ curTime = ""
    /\ curWeekday = 0
    /\ idx = 0
    /\ raised = {}
    /\ prevTick = "none"
    /\ \E d \in BootDates : now = [date |-> d, minute |-> 0] /\ bootDate = d
    /\ connected = FALSE
    /\ published = EmptyBag
    /\ acEvents = EmptyBag
    /\ disruptions = 0
    /\ tickTasks = 0
    /\ MqttStarted("connecting")

\* mutant: start() without its test of self.running
StartsTaskAlways(isRunning) == TRUE

\* the negation of: if self.running, the early return of start()
StartsTask(isRunning) == ~isRunning

\* start(): a no-op while running, else a new task, which self.task refers to
\* from then on
Start ==
    /\ IF StartsTask(running)
       THEN /\ running' = TRUE
            /\ task' = "alive"
            /\ pc' = "created"
            /\ tickTasks' = tickTasks + 1
       ELSE UNCHANGED <<running, task, pc, tickTasks>>
    /\ UNCHANGED <<executedToday, lastCheckDate, curDate, curTime, curWeekday,
                   idx, raised, prevTick, now, bootDate, connected, published, acEvents, disruptions>>
    /\ UNCHANGED mqttVars
    /\ UNCHANGED apiVars

\* mutant: stop() clears the flag and leaves the task alone
StopWithoutCancel(recorded) ==
    /\ disruptions < MaxDisruptions
    /\ disruptions' = disruptions + 1
    /\ running' = FALSE
    /\ ~recorded
    /\ UNCHANGED <<task, pc, executedToday, lastCheckDate, curDate, curTime,
                   curWeekday, idx, raised, prevTick, now, bootDate, connected,
                   published, acEvents, tickTasks>>
    /\ UNCHANGED mqttVars
    /\ UNCHANGED apiVars

\* stop(): the task is cancelled at the await it is suspended at.  A commit in
\* flight when the CancelledError arrives may or may not have reached the table.
Stop(recorded) ==
    /\ disruptions < MaxDisruptions
    /\ disruptions' = disruptions + 1
    /\ running' = FALSE
    /\ task' = IF task = "alive" THEN "cancelled" ELSE task
    /\ tickTasks' = IF task = "alive" THEN tickTasks - 1 ELSE tickTasks
    /\ acEvents' = IF task = "alive" /\ pc = "commit" /\ recorded
                   THEN acEvents (+) SetToBag({AcEventRow(ActiveSchedules[idx], curDate)})
                   ELSE acEvents
    /\ (recorded => task = "alive" /\ pc = "commit")
    /\ (task = "alive" => pc # "loop")
    /\ UNCHANGED <<pc, executedToday, lastCheckDate, curDate, curTime, curWeekday,
                   idx, raised, prevTick, now, bootDate, connected, published>>
    /\ UNCHANGED mqttVars
    /\ UNCHANGED apiVars

\* the head of _check_and_execute_schedules, up to the await of the fetch,
\* with the wall clock reading clock
TickHead(clock) ==
    /\ curDate' = clock.date
    /\ curTime' = Strftime(clock)
    /\ curWeekday' = IsoWeekday(clock.date)
    /\ executedToday' = Rollover(executedToday, lastCheckDate, clock.date).executed
    /\ lastCheckDate' = Rollover(executedToday, lastCheckDate, clock.date).last
    /\ raised' = {}
    /\ prevTick' = CASE pc = "sleep" -> "done" [] pc = "errsleep" -> "failed"
                      [] OTHER -> "none"
    /\ idx' = 0
    /\ pc' = "fetch"

\* the new task runs for the first time: while self.running, then the tick
FirstTick ==
    /\ task = "alive" /\ pc = "created"
    /\ IF running
       THEN TickHead(now) /\ UNCHANGED <<task, tickTasks>>
       ELSE /\ task' = "finished"
            /\ tickTasks' = tickTasks - 1
            /\ UNCHANGED <<pc, executedToday, lastCheckDate, curDate, curTime,
                           curWeekday, idx, raised, prevTick>>
    /\ UNCHANGED <<running, now, bootDate, connected, published, acEvents, disruptions>>
    /\ UNCHANGED mqttVars
    /\ UNCHANGED apiVars

\* asyncio.sleep(60) returns, n minutes of wall clock after the previous tick began
SleepDone(n) ==
    /\ task = "alive" /\ pc \in {"sleep", "errsleep"}
    /\ InHorizon(ClockPlus(now, n))
    /\ now' = ClockPlus(now, n)
    /\ IF running
       THEN TickHead(ClockPlus(now, n)) /\ UNCHANGED <<task, tickTasks>>
       ELSE /\ task' = "finished"
            /\ tickTasks' = tickTasks - 1
            /\ UNCHANGED <<pc, executedToday, lastCheckDate, curDate, curTime,
                           curWeekday, idx, raised, prevTick>>
    /\ UNCHANGED <<running, bootDate, connected, published, acEvents, disruptions>>
    /\ UNCHANGED mqttVars
    /\ UNCHANGED apiVars

\* the wall clock moves on while no task is alive
ClockTick ==
    /\ task # "alive"
    /\ InHorizon(ClockPlus(now, 1))
    /\ now' = ClockPlus(now, 1)
    /\ UNCHANGED <<running, task, pc, executedToday, lastCheckDate, curDate,
                   curTime, curWeekday, idx, raised, prevTick, bootDate, connected,
                   published, acEvents, disruptions>>
    /\ UNCHANGED mqttVars
    /\ UNCHANGED apiVars
    /\ UNCHANGED tickTasks

\* the fetch returns the active rows
FetchOk ==
    /\ task = "alive" /\ pc = "fetch"
    /\ IF ActiveSchedules = <<>>
       THEN pc' = "sleep" /\ UNCHANGED idx
       ELSE pc' = "loop" /\ idx' = 1
    /\ UNCHANGED <<running, task, executedToday, lastCheckDate, curDate, curTime,
                   curWeekday, raised, prevTick, now, bootDate, connected, published,
                   acEvents, disruptions>>
    /\ UNCHANGED mqttVars
    /\ UNCHANGED apiVars
    /\ UNCHANGED tickTasks

\* mutant: _run_scheduler has no except branch, the exception ends the task
FetchFailEndsTask ==
    /\ task = "alive" /\ pc = "fetch"
    /\ disruptions < MaxDisruptions
    /\ disruptions' = disruptions + 1
    /\ task' = "finished"
    /\ tickTasks' = tickTasks - 1
    /\ UNCHANGED <<running, pc, executedToday, lastCheckDate, curDate, curTime,
                   curWeekday, idx, raised, prevTick, now, bootDate, connected,
                   published, acEvents>>
    /\ UNCHANGED mqttVars
    /\ UNCHANGED apiVars

\* the fetch raises: the tick ends in the except branch of _run_scheduler
FetchFail ==
    /\ task = "alive" /\ pc = "fetch"
    /\ disruptions < MaxDisruptions
    /\ disruptions' = disruptions + 1
    /\ pc' = "errsleep"
    /\ UNCHANGED <<running, task, executedToday, lastCheckDate, curDate, curTime,
                   curWeekday, idx, raised, prevTick, now, bootDate, connected, published,
                   acEvents>>
    /\ UNCHANGED mqttVars
    /\ UNCHANGED apiVars
    /\ UNCHANGED tickTasks

\* one pass of the for loop's body over row idx, up to its next await
EvalRule(rcOk) ==
    /\ task = "alive" /\ pc = "loop"
    /\ LET s == ActiveSchedules[idx]
           key == ScheduleTodayId(s.id, curDate)
           days == DaysOfWeek(s)
       IN  IF key \in executedToday \/ s.time # curTime
           THEN NextRow /\ UNCHANGED <<executedToday, raised, published>>
           ELSE IF ~days.ok
           THEN RowRaised(s.id) /\ UNCHANGED <<executedToday, published>>
           ELSE IF ~WeekdayApplies(days.value, curWeekday)
           THEN NextRow /\ UNCHANGED <<executedToday, raised, published>>
           ELSE IF Publish(connected, rcOk)
           THEN /\ published' = published (+) SetToBag({AcCommand(s, curDate)})
                /\ pc' = "commit"
                /\ UNCHANGED <<idx, executedToday, raised>>
           ELSE /\ executedToday' = executedToday \cup {key}
                /\ NextRow
                /\ UNCHANGED <<raised, published>>
    /\ (~rcOk => connected /\ disruptions < MaxDisruptions)
    /\ disruptions' = IF rcOk THEN disruptions ELSE disruptions + 1
    /\ UNCHANGED <<running, task, lastCheckDate, curDate, curTime, curWeekday,
                   prevTick, now, bootDate, connected, acEvents>>
    /\ UNCHANGED mqttVars
    /\ UNCHANGED apiVars
    /\ UNCHANGED tickTasks

\* the commit of the event returns: the row is marked as executed today
CommitOk ==
    /\ task = "alive" /\ pc = "commit"
    /\ LET s == ActiveSchedules[idx]
       IN  /\ acEvents' = acEvents (+) SetToBag({AcEventRow(s, curDate)})
           /\ executedToday' = executedToday \cup {ScheduleTodayId(s.id, curDate)}
    /\ NextRow
    /\ UNCHANGED <<running, task, lastCheckDate, curDate, curTime, curWeekday,
                   raised, prevTick, now, bootDate, connected, published, disruptions>>
    /\ UNCHANGED mqttVars
    /\ UNCHANGED apiVars
    /\ UNCHANGED tickTasks

\* the commit raises: the for loop's except branch logs it
CommitFail ==
    /\ task = "alive" /\ pc = "commit"
    /\ disruptions < MaxDisruptions
    /\ disruptions' = disruptions + 1
    /\ RowRaised(ActiveSchedules[idx].id)
    /\ UNCHANGED <<running, task, executedToday, lastCheckDate, curDate, curTime,
                   curWeekday, prevTick, now, bootDate, connected, published, acEvents>>
    /\ UNCHANGED mqttVars
    /\ UNCHANGED apiVars
    /\ UNCHANGED tickTasks

Next ==
    \/ Start
    \/ \E recorded \in BOOLEAN : Stop(recorded)
    \/ FirstTick
    \/ \E n \in SleepMinutes : SleepDone(n)
    \/ ClockTick
    \/ FetchOk
    \/ FetchFail
    \/ \E rcOk \in BOOLEAN : EvalRule(rcOk)
    \/ CommitOk
    \/ CommitFail
    \/ OnConnect
    \/ OnDisconnect

Spec == Init /\ [][Next]_vars

(***************************************************************************)
(* The nominal run: the broker is connected when the application starts    *)
(* the scheduler, nothing stops it, and neither storage nor transport      *)
(* fails.                                                                  *)
(***************************************************************************)
InitNominal ==
    /\ running = FALSE
    /\ task = "none"
    /\ pc = "none"
    /\ executedToday = {}
    /\ lastCheckDate = None
    /\ curDate = 0
    /\ curTime = ""
    /\ curWeekday = 0
    /\ idx = 0
    /\ raised = {}
    /\ prevTick = "none"
    /\ \E d \in BootDates : now = [date |-> d, minute |-> 0] /\ bootDate = d
    /\ connected = TRUE
    /\ published = EmptyBag
    /\ acEvents = EmptyBag
    /\ disruptions = 0
    /\ tickTasks = 0
    /\ MqttStarted("up")

NextNominal ==
    \/ Start
    \/ FirstTick
    \/ \E n \in SleepMinutes : SleepDone(n)
    \/ FetchOk
    \/ EvalRule(TRUE)
    \/ CommitOk

SpecNominal == InitNominal /\ [][NextNominal]_vars

(***************************************************************************)
(* MQTTClient: operations.  connect(), disconnect(), register_callback()   *)
(* and publish() are called from the application's thread, one call at a   *)
(* time; _on_connect, _on_disconnect and _on_message are called by the     *)
(* network thread of an mqtt.Client (loop_start).  Nothing in MQTTClient    *)
(* takes a lock, so the threads interleave between any two statements: the *)
(* two for loops over the registry advance one entry per step.             *)
(***************************************************************************)
\* connect(): a new mqtt.Client replaces self.client; its network thread is
\* started unless client.connect raised (ok is FALSE)
Connect(ok) ==
    /\ ~reg.pending
    /\ apiCalls < MaxCalls
    /\ apiCalls' = apiCalls + 1
    /\ client + 1 \in ClientIds
    /\ client' = client + 1
    /\ loops' = IF ok THEN loops \cup {client + 1} ELSE loops
    /\ link' = [link EXCEPT ![client + 1] = IF ok THEN "connecting" ELSE "failed"]
    /\ ret' = [op |-> "connect", value |-> ok, handed |-> FALSE]
    /\ UNCHANGED <<connected, published, callbacks, reg, subscribed, net,
                   dispatched, registered, netEvents>>
    /\ UNCHANGED schedVars
    /\ UNCHANGED apiVars

\* disconnect(): loop_stop() joins the network thread of self.client, then
\* the transport is closed and the flag cleared; nothing without a client
Disconnect ==
    /\ ~reg.pending
    /\ apiCalls < MaxCalls
    /\ apiCalls' = apiCalls + 1
    /\ IF client # 0
       THEN /\ net[client].op = "idle"
            /\ loops' = loops \ {client}
            /\ link' = [link EXCEPT ![client] = "closed"]
            /\ connected' = FALSE
       ELSE UNCHANGED <<loops, link, connected>>
    /\ ret' = [op |-> "disconnect", value |-> TRUE, handed |-> FALSE]
    /\ UNCHANGED <<published, client, callbacks, reg, subscribed, net,
                   dispatched, registered, netEvents>>
    /\ UNCHANGED schedVars
    /\ UNCHANGED apiVars

\* register_callback, its first statement: the callback is stored
RegisterCallback(p, h) ==
    /\ ~reg.pending
    /\ apiCalls < MaxCalls
    /\ apiCalls' = apiCalls + 1
    /\ callbacks' = Assign(callbacks, p, h)
    /\ registered' = Registering(registered, p, h)
    /\ reg' = [pending |-> TRUE, pattern |-> p]
    /\ UNCHANGED <<connected, published, client, loops, link, subscribed, net,
                   dispatched, ret, netEvents>>
    /\ UNCHANGED schedVars
    /\ UNCHANGED apiVars

\* mutant: the pattern is subscribed whether connected or not
ShouldSubscribeAlways(isConnected, cl) == cl # 0

\* if self.connected and self.client
ShouldSubscribe(isConnected, cl) == isConnected /\ cl # 0

\* register_callback, its if: the pattern is subscribed at once when connected
RegisterSubscribe ==
    /\ reg.pending
    /\ subscribed' = IF ShouldSubscribe(connected, client)
                     THEN [subscribed EXCEPT ![client] = @ (+) SetToBag({reg.pattern})]
                     ELSE subscribed
    /\ ret' = [op |-> "register_callback", value |-> TRUE,
               handed |-> ShouldSubscribe(connected, client)]
    /\ reg' = NoReg
    /\ UNCHANGED <<connected, published, client, loops, link, callbacks, net,
                   dispatched, registered, apiCalls, netEvents>>
    /\ UNCHANGED schedVars
    /\ UNCHANGED apiVars

\* publish(), called through send_ac_command: False without handing anything
\* to the transport when not connected, else the transport's verdict, which
\* is a refusal (rcOk is FALSE) whenever the transport of self.client is not up
PublishCall(rcOk) ==
    /\ ~reg.pending
    /\ apiCalls < MaxCalls
    /\ apiCalls' = apiCalls + 1
    /\ (rcOk => client # 0 /\ link[client] = "up")
    /\ LET handed == connected /\ client # 0
           ok == Publish(handed, rcOk)
       IN  /\ published' = IF ok THEN published (+) SetToBag({ManualCommand})
                           ELSE published
           /\ ret' = [op |-> "publish", value |-> ok, handed |-> handed]
    /\ UNCHANGED <<connected, client, loops, link, callbacks, reg, subscribed,
                   net, dispatched, registered, netEvents>>
    /\ UNCHANGED schedVars
    /\ UNCHANGED apiVars

\* mutant: any acknowledgment counts as a connection
AckAcceptedAlways(rc) == TRUE

\* if rc == 0, the test of _on_connect
AckAccepted(rc) == rc = 0

\* the broker answers a connect attempt of mqtt.Client c with return code rc:
\* _on_connect up to its for loop
OnConnectEnter(c, rc) ==
    /\ c \in loops /\ link[c] \in {"connecting", "refused", "reconnecting"}
    /\ net[c].op = "idle"
    /\ IF AckAccepted(rc)
       THEN /\ connected' = TRUE
            /\ net' = [net EXCEPT ![c] = Iterating("connect", Len(callbacks), NoMessage)]
       ELSE UNCHANGED <<connected, net>>
    /\ link' = [link EXCEPT ![c] = IF rc = 0 THEN "up" ELSE "refused"]
    /\ subscribed' = [subscribed EXCEPT ![c] = EmptyBag]
    /\ UNCHANGED <<published, client, loops, callbacks, reg, dispatched,
                   registered, ret, apiCalls, netEvents>>
    /\ UNCHANGED schedVars
    /\ UNCHANGED apiVars

\* mutant: the loop subscribes every other key only
ResubscribeNextSkips(it) == [it EXCEPT !.pos = @ + 2]

\* the for loop of _on_connect moves to the key after the one it subscribed
ResubscribeNext(it) == [it EXCEPT !.pos = @ + 1]

\* one turn of the for loop of _on_connect.  The dict iterator raises
\* RuntimeError when the dict has changed size since the loop began; nothing
\* in MQTTClient catches it, and the network thread may or may not survive it.
ResubscribeStep(c, survives) ==
    /\ c \in loops /\ net[c].op = "connect"
    /\ LET it == net[c]
       IN  IF Len(callbacks) # it.used
           THEN /\ net' = [net EXCEPT ![c] = Idle]
                /\ loops' = IF survives THEN loops ELSE loops \ {c}
                /\ UNCHANGED subscribed
           ELSE IF it.pos > Len(callbacks)
           THEN /\ survives
                /\ net' = [net EXCEPT ![c] = Idle]
                /\ UNCHANGED <<loops, subscribed>>
           ELSE /\ survives
                /\ subscribed' = [subscribed EXCEPT ![c] =
                                      @ (+) SetToBag({callbacks[it.pos].pattern})]
                /\ net' = [net EXCEPT ![c] = ResubscribeNext(it)]
                /\ UNCHANGED loops
    /\ UNCHANGED <<connected, published, client, link, callbacks, reg, dispatched,
                   registered, ret, apiCalls, netEvents>>
    /\ UNCHANGED schedVars
    /\ UNCHANGED apiVars

\* the transport of mqtt.Client c drops: _on_disconnect, after which the
\* network thread tries to connect again
OnDisconnectDrop(c) ==
    /\ c \in loops /\ link[c] = "up" /\ net[c].op = "idle"
    /\ netEvents.drops + netEvents.messages < MaxEvents
    /\ netEvents' = [netEvents EXCEPT !.drops = @ + 1]
    /\ connected' = FALSE
    /\ link' = [link EXCEPT ![c] = "reconnecting"]
    /\ UNCHANGED <<published, client, loops, callbacks, reg, subscribed, net,
                   dispatched, registered, ret, apiCalls>>
    /\ UNCHANGED schedVars
    /\ UNCHANGED apiVars

\* mutant: a payload that is not JSON ends the processing of the message
ReachesLoopJsonOnly(topic, payload) == payload = "json" /\ TopicParts(topic) >= 2

\* _on_message reaches its for loop when msg.payload.decode('utf-8') did not
\* raise and the topic has two parts or more; json.loads raising is caught
\* by the inner except and does not end the processing
ReachesLoop(topic, payload) == payload # "undecodable" /\ TopicParts(topic) >= 2

\* a message arrives on the connection of mqtt.Client c: _on_message up to its
\* for loop.  Bytes that do not decode raise into the outer except; a topic of
\* a single part is left alone.
OnMessageEnter(c, topic, payload) ==
    /\ c \in loops /\ link[c] = "up" /\ net[c].op = "idle"
    /\ netEvents.drops + netEvents.messages < MaxEvents
    /\ netEvents' = [netEvents EXCEPT !.messages = @ + 1,
                                      !.inbound = [topic |-> topic, payload |-> payload]]
    /\ IF ~ReachesLoop(topic, payload)
       THEN UNCHANGED net
       ELSE net' = [net EXCEPT ![c] =
                       Iterating("message", Len(callbacks),
                                 [id |-> netEvents.messages + 1, device_id |-> DeviceId(topic),
                                  topic |-> topic,
                                  payload |-> IF payload = "json" THEN "parsed"
                                              ELSE "raw"])]
    /\ UNCHANGED <<connected, published, client, loops, link, callbacks, reg,
                   subscribed, dispatched, registered, ret, apiCalls>>
    /\ UNCHANGED schedVars
    /\ UNCHANGED apiVars

\* mutant: no break, the loop goes on to the next pattern after a match
AfterMatchGoesOn(it) == [it EXCEPT !.pos = @ + 1]

\* the break after the callback of the first matching pattern
AfterMatch(it) == Idle

\* mutant: the exception of a synchronous callback leaves _on_message and ends
\* the network thread
AfterCallbackPropagates(threads, c, raises) == IF raises THEN threads \ {c} ELSE threads

\* the try around the synchronous callback: whether it raised or not, the
\* network thread goes on
AfterCallback(threads, c, raises) == threads

\* mutant: a coroutine callback is run to its end before _on_message goes on
RunCallbackInline(handler, raises) == IF raises THEN "raised" ELSE "returned"

\* mutant: every callback, plain ones too, is started in a thread of its own
RunCallbackAllThreads(handler, raises) == "running"

\* if asyncio.iscoroutinefunction(callback): a coroutine callback is started
\* in a thread of its own and is running when _on_message goes on; a plain
\* callback is called inline and has returned or raised by then
RunCallback(handler, raises) ==
    IF handler.is_async THEN "running"
    ELSE IF raises THEN "raised" ELSE "returned"

\* one turn of the for loop of _on_message.  A RuntimeError of the dict
\* iterator ends in the outer except.  The callback of the first matching
\* pattern is run inline, where it returns or raises, or in a thread of its own.
\* The entry added to dispatched also says how large the registry was when the
\* loop began (size) and which callback had been registered last for the
\* pattern (newest).
ResolveStep(c, raises) ==
    /\ c \in loops /\ net[c].op = "message"
    /\ LET it == net[c]
       IN  IF Len(callbacks) # it.used \/ it.pos > Len(callbacks)
           THEN /\ ~raises
                /\ net' = [net EXCEPT ![c] = Idle]
                /\ UNCHANGED <<dispatched, loops>>
           ELSE IF TopicMatches(it.msg.topic, callbacks[it.pos].pattern)
           THEN /\ (raises => ~callbacks[it.pos].handler.is_async)
                /\ dispatched' = Append(dispatched,
                       [msg |-> it.msg.id, client |-> c,
                        device_id |-> it.msg.device_id, topic |-> it.msg.topic,
                        payload |-> it.msg.payload,
                        pattern |-> callbacks[it.pos].pattern,
                        handler |-> callbacks[it.pos].handler,
                        size |-> it.used,
                        newest |-> registered.newest[callbacks[it.pos].pattern],
                        outcome |-> RunCallback(callbacks[it.pos].handler, raises)])
                /\ net' = [net EXCEPT ![c] = AfterMatch(it)]
                /\ loops' = AfterCallback(loops, c, raises)
           ELSE /\ ~raises
                /\ net' = [net EXCEPT ![c] = [it EXCEPT !.pos = @ + 1]]
                /\ UNCHANGED <<dispatched, loops>>
    /\ UNCHANGED <<connected, published, client, link, callbacks, reg, subscribed,
                   registered, ret, apiCalls, netEvents>>
    /\ UNCHANGED schedVars
    /\ UNCHANGED apiVars

\* the thread of an asynchronous callback ends: asyncio.run returned or raised
\* into the thread's own except
AsyncDone(k, raises) ==
    /\ k \in DOMAIN dispatched /\ dispatched[k].outcome = "running"
    /\ dispatched' = [dispatched EXCEPT ![k].outcome =
                          IF raises THEN "raised" ELSE "returned"]
    /\ UNCHANGED <<connected, published, client, loops, link, callbacks, reg,
                   subscribed, net, registered, ret, apiCalls, netEvents>>
    /\ UNCHANGED schedVars
    /\ UNCHANGED apiVars

\* the MQTT client after its construction; the scheduler is not started
InitMqtt ==
    /\ running = FALSE
    /\ task = "none"
    /\ pc = "none"
    /\ executedToday = {}
    /\ lastCheckDate = None
    /\ curDate = 0
    /\ curTime = ""
    /\ curWeekday = 0
    /\ idx = 0
    /\ raised = {}
    /\ prevTick = "none"
    /\ now = [date |-> 1, minute |-> 0] /\ bootDate = 1
    /\ connected = FALSE
    /\ published = EmptyBag
    /\ acEvents = EmptyBag
    /\ disruptions = 0
    /\ tickTasks = 0
    /\ MqttFresh

\* the return codes of an acknowledgment: accepted, and refused (not authorised)
ReturnCodes == {0, 5}

NextMqtt ==
    \/ \E ok \in BOOLEAN : Connect(ok)
    \/ Disconnect
    \/ \E p \in Patterns : RegisterCallback(p, HandleSync)
    \/ RegisterSubscribe
    \/ \E rcOk \in BOOLEAN : PublishCall(rcOk)
    \/ \E c \in ClientIds, rc \in ReturnCodes : OnConnectEnter(c, rc)
    \/ \E c \in ClientIds, survives \in BOOLEAN : ResubscribeStep(c, survives)
    \/ \E c \in ClientIds : OnDisconnectDrop(c)
    \/ \E c \in ClientIds : OnMessageEnter(c, <<"d", "/", "s">>, "json")
    \/ \E c \in ClientIds : ResolveStep(c, FALSE)

\* the client and its connections: every call and every event of the
\* transport; the callbacks are plain functions that return, and the inbound
\* messages are of one kind
SpecMqtt == InitMqtt /\ [][NextMqtt]_vars

\* the MQTT client once connect() has been called and acknowledged, before
\* anything is registered
InitRouter ==
    /\ running = FALSE
    /\ task = "none"
    /\ pc = "none"
    /\ executedToday = {}
    /\ lastCheckDate = None
    /\ curDate = 0
    /\ curTime = ""
    /\ curWeekday = 0
    /\ idx = 0
    /\ raised = {}
    /\ prevTick = "none"
    /\ now = [date |-> 1, minute |-> 0] /\ bootDate = 1
    /\ connected = TRUE
    /\ published = EmptyBag
    /\ acEvents = EmptyBag
    /\ disruptions = 0
    /\ tickTasks = 0
    /\ client = 1
    /\ loops = {1}
    /\ link = [c \in ClientIds |-> IF c = 1 THEN "up" ELSE "closed"]
    /\ callbacks = <<>>
    /\ reg = NoReg
    /\ subscribed = [c \in ClientIds |-> EmptyBag]
    /\ net = [c \in ClientIds |-> Idle]
    /\ dispatched = <<>>
    /\ registered = NoneRegistered
    /\ ret = [op |-> "connect", value |-> TRUE, handed |-> FALSE]
    /\ apiCalls = 0
    /\ netEvents = [drops |-> 0, messages |-> 0, inbound |-> NoInbound]
    /\ ApiFresh

NextRouter ==
    \/ \E p \in Patterns, h \in Handlers : RegisterCallback(p, h)
    \/ RegisterSubscribe
    \/ \E topic \in Topics, payload \in Payloads : OnMessageEnter(1, topic, payload)
    \/ \E raises \in BOOLEAN : ResolveStep(1, raises)
    \/ \E k \in 1..MaxEvents, raises \in BOOLEAN : AsyncDone(k, raises)

\* the router and the dispatcher on one established connection: callbacks are
\* registered while messages of every kind arrive, and callbacks may raise
SpecRouter == InitRouter /\ [][NextRouter]_vars

\* the MQTT client connected, with one pattern registered
InitMatch ==
    /\ running = FALSE
    /\ task = "none"
    /\ pc = "none"
    /\ executedToday = {}
    /\ lastCheckDate = None
    /\ curDate = 0
    /\ curTime = ""
    /\ curWeekday = 0
    /\ idx = 0
    /\ raised = {}
    /\ prevTick = "none"
    /\ now = [date |-> 1, minute |-> 0] /\ bootDate = 1
    /\ connected = TRUE
    /\ published = EmptyBag
    /\ acEvents = EmptyBag
    /\ disruptions = 0
    /\ tickTasks = 0
    /\ client = 1
    /\ loops = {1}
    /\ link = [c \in ClientIds |-> IF c = 1 THEN "up" ELSE "closed"]
    /\ \E p \in MatchPatterns :
           /\ callbacks = Assign(<<>>, p, HandleSync)
           /\ registered = Registering(NoneRegistered, p, HandleSync)
           /\ subscribed = [c \in ClientIds |->
                                IF c = 1 THEN SetToBag({p}) ELSE EmptyBag]
    /\ reg = NoReg
    /\ net = [c \in ClientIds |-> Idle]
    /\ dispatched = <<>>
    /\ ret = [op |-> "register_callback", value |-> TRUE, handed |-> TRUE]
    /\ apiCalls = 0
    /\ netEvents = [drops |-> 0, messages |-> 0, inbound |-> NoInbound]
    /\ ApiFresh

NextMatch ==
    \/ \E topic \in MatchTopics : OnMessageEnter(1, topic, "json")
    \/ ResolveStep(1, FALSE)

NextPayload ==
    \/ \E p \in Patterns : RegisterCallback(p, HandleSync)
    \/ RegisterSubscribe
    \/ \E topic \in Topics, payload \in PayloadKinds : OnMessageEnter(1, topic, payload)
    \/ \E raises \in BOOLEAN : ResolveStep(1, raises)

\* the payloads of the inbound messages: messages of every kind of payload
\* arrive on one established connection while plain callbacks, which may
\* raise, are registered
SpecPayload == InitRouter /\ [][NextPayload]_vars

\* _topic_matches at work: messages of many topics arrive on a connection
\* with one registered pattern
SpecMatch == InitMatch /\ [][NextMatch]_vars

(***************************************************************************)
(* The command methods of MQTTClient and the endpoints of the API that     *)
(* call them.  An endpoint answers with the status of an HTTPException it   *)
(* raised, with 500 when another exception left it, and with 200 otherwise. *)
(***************************************************************************)
\* the message each command method publishes; of the payload the model keeps
\* what kind of command it is
SendAcCommand(device_id, action) ==
    [topic |-> device_id \o "/ac/command", action |-> action, rule |-> 0, date |-> 0]
SendLedCommand(device_id) ==
    [topic |-> device_id \o "/led/command", action |-> "led", rule |-> 0, date |-> 0]
SendConfigUpdate(device_id) ==
    [topic |-> device_id \o "/config/update", action |-> "config", rule |-> 0, date |-> 0]

\* mutant: the reboot command goes out on the topic of the AC commands
SendRebootCommandOnAcTopic(device_id) ==
    [topic |-> device_id \o "/ac/command", action |-> "reboot", rule |-> 0, date |-> 0]

SendRebootCommand(device_id) ==
    [topic |-> device_id \o "/system/command", action |-> "reboot", rule |-> 0, date |-> 0]

\* return self.publish(topic, payload), the last statement of each command
\* method: one publish, whose result is the method's result
SendCall(op, msg, rcOk) ==
    /\ (rcOk => client # 0 /\ link[client] = "up")
    /\ LET handed == connected /\ client # 0
           ok == Publish(handed, rcOk)
       IN  /\ published' = IF ok THEN published (+) SetToBag({msg}) ELSE published
           /\ ret' = [op |-> op, value |-> ok, handed |-> handed]

\* check_mqtt_success: HTTPException(503) unless the command method returned True
CheckMqttSuccess(success) == IF success THEN 200 ELSE 503

\* an endpoint that validates, calls a command method and checks its result
Endpoint(endpoint, device_id, valid, op, msg, rcOk) ==
    /\ ~reg.pending
    /\ apiCalls < MaxCalls
    /\ apiCalls' = apiCalls + 1
    /\ IF valid
       THEN /\ SendCall(op, msg, rcOk)
            /\ response' = [seq |-> response.seq + 1, endpoint |-> endpoint,
                            device_id |-> device_id,
                            status |-> CheckMqttSuccess(ret'.value)]
       ELSE /\ ~rcOk
            /\ response' = [seq |-> response.seq + 1, endpoint |-> endpoint,
                            device_id |-> device_id, status |-> 400]
            /\ UNCHANGED <<published, ret>>
    /\ UNCHANGED <<connected, client, loops, link, callbacks, reg, subscribed,
                   net, dispatched, registered, netEvents, acState>>
    /\ UNCHANGED schedVars

\* POST /devices/{device_id}/led/command with red value r, green and blue 0
ApiSendLedCommand(device_id, r, rcOk) ==
    Endpoint("led_command", device_id, 0 <= r /\ r <= 255,
             "send_led_command", SendLedCommand(device_id), rcOk)

\* POST /devices/{device_id}/config
UpdateDeviceConfig(device_id, rcOk) ==
    Endpoint("config", device_id, TRUE,
             "send_config_update", SendConfigUpdate(device_id), rcOk)

\* POST /devices/{device_id}/reboot
RebootDevice(device_id, rcOk) ==
    Endpoint("reboot", device_id, TRUE,
             "send_reboot_command", SendRebootCommand(device_id), rcOk)

\* mqtt.send_ac_command(schedule.device_id, schedule.action), the call with
\* two arguments as the scheduler makes it
SendAcCommandCall(device_id, action, rcOk) ==
    /\ ~reg.pending
    /\ apiCalls < MaxCalls
    /\ apiCalls' = apiCalls + 1
    /\ SendCall("send_ac_command", SendAcCommand(device_id, action), rcOk)
    /\ UNCHANGED <<connected, client, loops, link, callbacks, reg, subscribed,
                   net, dispatched, registered, netEvents>>
    /\ UNCHANGED schedVars
    /\ UNCHANGED apiVars

\* the arguments the AC endpoint passes to mqtt.send_ac_command (device_id,
\* action, temperature, mode, fan_speed) and the parameters the method has
\* besides self (device_id, action)
ApiAcArguments == 5
SendAcCommandParameters == 2

\* a call of a method without defaults and without *args: it is entered when
\* as many arguments are given as it has parameters, else TypeError is raised
Accepts(given, parameters) == given = parameters

\* the requests to the AC endpoint: the action and the temperature vary, mode
\* and fan speed are the defaults
AcRequests == [action : {"on", "off", "dim"}, temperature : {16, 24}]

\* the rows the AC endpoint writes
AcStateRow(req) == [is_on |-> req.action = "on", temperature |-> req.temperature]
ManualAcEvent(device_id, req) ==
    [device_id |-> device_id, action |-> req.action, triggered_by |-> "manual",
     date |-> 0]

\* mutant: the rows are written before the result of the send is looked at
ReachesCommitUnlessInvalid(status) == status # 400

\* the statements after check_mqtt_success run when no exception was raised
\* before them
ReachesCommit(status) == status = 200

\* POST /devices/{device_id}/ac/command
ApiSendAcCommand(device_id, req, rcOk) ==
    /\ ~reg.pending
    /\ apiCalls < MaxCalls
    /\ apiCalls' = apiCalls + 1
    /\ (rcOk => client # 0 /\ link[client] = "up")
    /\ LET valid == /\ req.action \in {"on", "off"}
                    /\ req.temperature >= 17 /\ req.temperature <= 30
           entered == valid /\ Accepts(ApiAcArguments, SendAcCommandParameters)
           handed == connected /\ client # 0
           ok == entered /\ Publish(handed, rcOk)
           status == IF ~valid THEN 400
                     ELSE IF ~entered THEN 500
                     ELSE CheckMqttSuccess(ok)
       IN  /\ published' = IF ok
                           THEN published (+) SetToBag({SendAcCommand(device_id, req.action)})
                           ELSE published
           /\ ret' = IF entered
                     THEN [op |-> "send_ac_command", value |-> ok, handed |-> handed]
                     ELSE ret
           /\ IF ReachesCommit(status)
              THEN /\ acState' = [acState EXCEPT ![device_id] = Some(AcStateRow(req))]
                   /\ acEvents' = acEvents (+) SetToBag({ManualAcEvent(device_id, req)})
              ELSE UNCHANGED <<acState, acEvents>>
           /\ response' = [seq |-> response.seq + 1, endpoint |-> "ac_command",
                           device_id |-> device_id, status |-> status]
    /\ UNCHANGED <<connected, client, loops, link, callbacks, reg, subscribed,
                   net, dispatched, registered, netEvents>>
    /\ UNCHANGED <<running, task, pc, executedToday, lastCheckDate, curDate,
                   curTime, curWeekday, idx, raised, prevTick, now, bootDate,
                   disruptions, tickTasks>>

\* the backend with its API: the startup has made the client and called
\* connect(), and the database holds an AcState row for every device or for
\* none
InitApi ==
    /\ running = FALSE
    /\ task = "none"
    /\ pc = "none"
    /\ executedToday = {}
    /\ lastCheckDate = None
    /\ curDate = 0
    /\ curTime = ""
    /\ curWeekday = 0
    /\ idx = 0
    /\ raised = {}
    /\ prevTick = "none"
    /\ now = [date |-> 1, minute |-> 0] /\ bootDate = 1
    /\ connected = FALSE
    /\ published = EmptyBag
    /\ acEvents = EmptyBag
    /\ disruptions = 0
    /\ tickTasks = 0
    /\ client = 1
    /\ loops = {1}
    /\ link = [c \in ClientIds |-> IF c = 1 THEN "connecting" ELSE "closed"]
    /\ callbacks = <<>>
    /\ reg = NoReg
    /\ subscribed = [c \in ClientIds |-> EmptyBag]
    /\ net = [c \in ClientIds |-> Idle]
    /\ dispatched = <<>>
    /\ registered = NoneRegistered
    /\ ret = [op |-> "connect", value |-> TRUE, handed |-> FALSE]
    /\ apiCalls = 0
    /\ netEvents = [drops |-> 0, messages |-> 0, inbound |-> NoInbound]
    /\ \E row \in {None, Some(AcStateRow([action |-> "off", temperature |-> 24]))} :
           acState = [d \in ApiDevices |-> row]
    /\ response = NoResponse

NextApi ==
    \/ \E c \in ClientIds : OnConnectEnter(c, 0)
    \/ \E c \in ClientIds : ResubscribeStep(c, TRUE)
    \/ \E c \in ClientIds : OnDisconnectDrop(c)
    \/ \E d \in ApiDevices, req \in AcRequests, rcOk \in BOOLEAN :
           ApiSendAcCommand(d, req, rcOk)
    \/ \E d \in ApiDevices, r \in {0, 256}, rcOk \in BOOLEAN :
           ApiSendLedCommand(d, r, rcOk)
    \/ \E d \in ApiDevices, rcOk \in BOOLEAN : UpdateDeviceConfig(d, rcOk)
    \/ \E d \in ApiDevices, rcOk \in BOOLEAN : RebootDevice(d, rcOk)
    \/ \E d \in ApiDevices, rcOk \in BOOLEAN : SendAcCommandCall(d, "on", rcOk)

\* the endpoints that send commands, the scheduler's way of sending an AC
\* command, and the connection coming and going
SpecApi == InitApi /\ [][NextApi]_vars

(***************************************************************************)
(* What the claims speak of.                                               *)
(***************************************************************************)
RowIds == DOMAIN ScheduleRows
Dates == 1..(7 + MaxDays)

\* successful sends of the AC command of row i in ticks of date d
Commands(i, d) == CopiesIn(AcCommand(ScheduleRows[i], d), published)

\* automation events stored for row i in ticks of date d
Events(i, d) == CopiesIn(AcEventRow(ScheduleRows[i], d), acEvents)

\* the tick in progress has sent the command of row idx and awaits the commit
CommitInFlight == pc = "commit"

\* C1: for every rule and calendar date, the scheduler sends the rule's AC
\* command at most once on that date, whatever the ticks, the failed event
\* writes and the stop()/start() cycles in between.
C1_AtMostOneCommandPerRuleAndDate ==
    \A i \in RowIds, d \in Dates : Commands(i, d) <= 1

\* C2: a command that failed leaves no dedup key behind: a key (rule, date) is
\* in the dedup set only if the rule's command was sent on that date.
C2_FailedCommandLeavesNoDedupKey ==
    \A i \in RowIds, d \in Dates :
        ScheduleTodayId(ScheduleRows[i].id, d) \in executedToday => Commands(i, d) >= 1

\* C3: when stop() has returned, the tick that was in flight has run to its
\* end: a rule whose command that tick had sent has its event recorded and its
\* dedup key added.
C3_StopReturnsAfterTickCompleted ==
    (task = "cancelled" /\ CommitInFlight) =>
        LET s == ActiveSchedules[idx]
        IN  /\ ScheduleTodayId(s.id, curDate) \in executedToday
            /\ Events(s.id, curDate) = Commands(s.id, curDate)

\* C4: outside a commit in flight, the events stored for a rule and date are
\* as many as the commands sent for it, that is at most one of each, and every
\* stored event carries the device, the action and the identifier of its rule.
C4_OneEventPerCommand ==
    /\ ~CommitInFlight =>
           \A i \in RowIds, d \in Dates :
               Events(i, d) = Commands(i, d) /\ Commands(i, d) <= 1
    /\ \A e \in BagToSet(acEvents) :
           \E i \in RowIds :
               /\ e.device_id = ScheduleRows[i].device_id
               /\ e.action = ScheduleRows[i].action
               /\ e.triggered_by = "schedule:" \o IntStr(ScheduleRows[i].id)

\* the rows as the claims read them: the weekday set of a row (empty: every
\* day), the rows whose weekday text is a list at all, and "HH:MM" of a minute
RuleWeekdays == <<{1, 2, 3, 4, 5}, {}, {}, {}, {}, {6, 7}, {6, 7}>>
WellFormedRows == {1, 3, 4, 5, 6, 7}
HourMinute(m) == <<"08:00", "08:01", "08:02">>[m + 1]
EmptyWeekdayTexts == {None, Some(""), Some("[]")}

\* row i is active and its weekday set is empty or holds the weekday of date d
AppliesOn(i, d) ==
    /\ ScheduleRows[i].is_active
    /\ i \in WellFormedRows
    /\ (RuleWeekdays[i] = {} \/ IsoWeekday(d) \in RuleWeekdays[i])

\* a tick has run to its end and the task sleeps
TickCompleted == task = "alive" /\ pc = "sleep"

\* C5 as stated: in the nominal run, every active rule whose weekday set is
\* empty or holds the day's weekday has fired exactly once on each day that
\* has gone by.
C5_FiresExactlyOncePerDay ==
    \A i \in RowIds, d \in Dates :
        (AppliesOn(i, d) /\ bootDate <= d /\ d < now.date) => Commands(i, d) = 1

\* C5 as amended: in the nominal run a rule fires at most once on a calendar
\* day and only on a day its weekday set admits, and a tick that reads the
\* clock in the rule's minute on such a day fires it exactly once.
C5_AtMostOncePerDayOnceWhenTicked ==
    /\ \A i \in RowIds, d \in Dates :
           /\ Commands(i, d) <= 1
           /\ Commands(i, d) >= 1 => AppliesOn(i, d)
    /\ TickCompleted =>
           \A i \in RowIds :
               (AppliesOn(i, now.date) /\ ScheduleRows[i].time = HourMinute(now.minute))
                   => Commands(i, now.date) = 1

\* a day has gone by on which one rule fired once and another rule, which the
\* day's weekday admits, did not fire: no tick read the clock in its minute
C5_Witness ==
    \E d \in Dates :
        /\ d < now.date
        /\ Commands(3, d) = 1
        /\ AppliesOn(4, d) /\ Commands(4, d) = 0

\* C6: the dedup set is reset at the first tick of a new local date: it is
\* empty whenever the recorded date changes, it never holds a key of another
\* date than the recorded one, and a tick evaluates the rules against the
\* recorded date, so no entry of an earlier day blocks a rule.
C6_DedupSetResetOnNewDate ==
    /\ [][lastCheckDate' # lastCheckDate => executedToday' = {}]_vars
    /\ [](\A k \in executedToday :
             /\ lastCheckDate # None
             /\ \E i \in RowIds : k = ScheduleTodayId(ScheduleRows[i].id, lastCheckDate[1]))
    /\ []((task = "alive" /\ pc \in {"fetch", "loop", "commit"})
             => lastCheckDate = Some(curDate))

\* a rule has fired on a date and again on the next date
C6_Witness ==
    \E i \in RowIds, d \in Dates :
        d + 1 \in Dates /\ Commands(i, d) >= 1 /\ Commands(i, d + 1) >= 1

\* C7: in the nominal run, rule 1 (ESP32-001, on, Monday to Friday, 08:00) has
\* exactly one command (topic ESP32-001/ac/command, action on) and one event
\* once a tick at Monday 08:00 has completed, and neither a command nor an
\* event on any Saturday.
C7_WeekdayRuleMondayYesSaturdayNo ==
    /\ ScheduleRows[1].device_id = "ESP32-001" /\ ScheduleRows[1].action = "on"
    /\ ScheduleRows[1].time = "08:00" /\ RuleWeekdays[1] = {1, 2, 3, 4, 5}
    /\ \A d \in Dates : IsoWeekday(d) = 6 => Commands(1, d) = 0 /\ Events(1, d) = 0
    /\ (TickCompleted /\ IsoWeekday(now.date) = 1 /\ now.minute = 0) =>
           /\ CopiesIn([topic |-> "ESP32-001/ac/command", action |-> "on",
                        rule |-> 1, date |-> now.date], published) = 1
           /\ \A m \in BagToSet(published) :
                  (m.rule = 1 /\ m.date = now.date) =>
                      m.topic = "ESP32-001/ac/command" /\ m.action = "on"
           /\ Events(1, now.date) = 1

\* a tick at Monday 08:00 has completed and has sent the command of rule 1
C7_Witness ==
    /\ TickCompleted /\ IsoWeekday(now.date) = 1 /\ now.minute = 0
    /\ Commands(1, now.date) = 1

\* C8: a weekday set stored as null, as the empty string or as "[]" passes the
\* weekday check on every ISO weekday, and in the nominal run a rule with such
\* a set has fired once a tick in its minute has completed, whatever the day.
C8_EmptyWeekdaySetFiresEveryDay ==
    /\ \A text \in EmptyWeekdayTexts, w \in 1..7 :
           LET days == DaysOfWeek([days_of_week |-> text])
           IN  days.ok /\ WeekdayApplies(days.value, w)
    /\ TickCompleted =>
           \A i \in RowIds :
               (/\ ScheduleRows[i].is_active
                /\ ScheduleRows[i].days_of_week \in EmptyWeekdayTexts
                /\ ScheduleRows[i].time = HourMinute(now.minute))
                   => Commands(i, now.date) = 1

\* on a Sunday the rule stored with null, the rule stored with "[]" and the
\* rule stored with the empty string have each fired
C8_Witness ==
    /\ TickCompleted /\ IsoWeekday(now.date) = 7
    /\ ScheduleRows[3].days_of_week = None /\ Commands(3, now.date) = 1
    /\ ScheduleRows[4].days_of_week = Some("[]") /\ Commands(4, now.date) = 1
    /\ ScheduleRows[5].days_of_week = Some("") /\ Commands(5, now.date) = 1

C10_FailedTickKeepsTheLoop ==
    /\ [][(task = "alive" /\ task' # "alive") => ~running']_vars
    /\ []((task = "alive" /\ pc = "errsleep") =>
             /\ running
             /\ InHorizon(ClockPlus(now, 1)) => ENABLED SleepDone(1))

\* a tick has begun after a tick whose fetch raised
C10_Witness == task = "alive" /\ pc = "fetch" /\ prevTick = "failed"

(***************************************************************************)
(* What the claims about the MQTT client speak of.                         *)
(***************************************************************************)
\* the registered patterns that match a topic, as MQTT reads them: "+/s"
\* matches "d/s", "d/#" matches "d/s" and "d/t"
MatchingPatterns(topic) ==
    IF topic = <<"d", "/", "s">> THEN {PatternSensor, PatternDevice}
    ELSE IF topic = <<"d", "/", "t">> THEN {PatternDevice}
    ELSE {}

\* the handler invocations made for the inbound message with identifier m
InvocationsOf(m) == {k \in DOMAIN dispatched : dispatched[k].msg = m}

\* the pattern registered first among those of order that match the topic
FirstRegistered(order, topic) ==
    order[CHOOSE i \in DOMAIN order :
              /\ order[i] \in MatchingPatterns(topic)
              /\ \A j \in 1..(i - 1) : order[j] \notin MatchingPatterns(topic)]

\* C11: each inbound message is dispatched to at most one handler, also when
\* several registered patterns match its topic.
C11_AtMostOneHandlerPerMessage ==
    \A m \in 1..netEvents.messages : Cardinality(InvocationsOf(m)) <= 1

\* a message whose topic two registered patterns matched has been dispatched
C11_Witness ==
    \E k \in DOMAIN dispatched :
        /\ dispatched[k].size = 2
        /\ Cardinality(MatchingPatterns(dispatched[k].topic)) = 2
        /\ net[1].op = "idle"

\* C12: the handler invoked for a message is the one of the pattern that was
\* registered first among the registered patterns matching the topic,
\* whatever was registered again in between.
C12_FirstRegisteredPatternWins ==
    \A k \in DOMAIN dispatched :
        /\ dispatched[k].pattern \in MatchingPatterns(dispatched[k].topic)
        /\ dispatched[k].pattern = FirstRegistered(registered.order, dispatched[k].topic)

\* three calls have registered two patterns with different callbacks, and a
\* message both patterns match went to the pattern registered first
C12_Witness ==
    /\ apiCalls = 3 /\ ~reg.pending /\ Len(callbacks) = 2
    /\ callbacks[1].handler # callbacks[2].handler
    /\ \E k \in DOMAIN dispatched :
           /\ dispatched[k].size = 2
           /\ Cardinality(MatchingPatterns(dispatched[k].topic)) = 2
           /\ dispatched[k].pattern = callbacks[1].pattern
           /\ dispatched[k].handler = callbacks[1].handler

\* C13: registering a pattern again replaces its callback: the registry holds
\* one entry for each registered pattern and none for any other, the entry
\* holds the callback registered last, and a message dispatched through the
\* pattern went to the callback that was the last one registered at that time.
C13_LastRegistrationReplaces ==
    /\ \A p \in Patterns :
           Cardinality({i \in DOMAIN callbacks : callbacks[i].pattern = p})
               = IF registered.newest[p] = "none" THEN 0 ELSE 1
    /\ \A i \in DOMAIN callbacks :
           callbacks[i].handler.name = registered.newest[callbacks[i].pattern]
    /\ \A k \in DOMAIN dispatched : dispatched[k].handler.name = dispatched[k].newest

\* one pattern has been registered twice, first with one callback and then
\* with the other, and a message has gone to the second callback
C13_Witness ==
    /\ apiCalls = 2 /\ ~reg.pending /\ Len(callbacks) = 1
    /\ \E k, l \in DOMAIN dispatched :
           /\ k < l
           /\ dispatched[k].pattern = dispatched[l].pattern
           /\ dispatched[k].handler # dispatched[l].handler
           /\ dispatched[l].handler = callbacks[1].handler

\* C14: on a live connection at rest (the acknowledgment's pass over the
\* registry is over and no register_callback is between its two statements)
\* each registered pattern has been subscribed exactly once, whatever
\* register_callback calls, repeated ones included, and acknowledgments
\* came before.
C14_EachPatternSubscribedOnce ==
    (/\ connected /\ client \in loops /\ link[client] = "up"
     /\ net[client].op = "idle" /\ ~reg.pending)
        => \A i \in DOMAIN callbacks :
               CopiesIn(callbacks[i].pattern, subscribed[client]) = 1

\* C15: an accepted acknowledgment begins, on entering Connected, a pass over
\* the registry that starts from no subscription of the new session; each
\* turn of the pass subscribes the pattern it stands at and moves on by one;
\* a pass that ends over a registry that kept its N patterns has made N
\* turns, one for each pattern; and while the pass of a connection runs no
\* message of that connection is taken up or dispatched.
C15_ReconnectResubscribesEachPatternOnce ==
    [][\A c \in ClientIds :
          /\ (net[c].op # "connect" /\ net'[c].op = "connect")
                 => /\ connected' /\ link'[c] = "up"
                    /\ net'[c].pos = 1 /\ net'[c].used = Len(callbacks)
                    /\ subscribed'[c] = EmptyBag
          /\ (net[c].op = "connect" /\ net'[c].op = "connect" /\ net'[c] # net[c])
                 => /\ net'[c].pos = net[c].pos + 1
                    /\ subscribed'[c] =
                           subscribed[c] (+) SetToBag({callbacks[net[c].pos].pattern})
          /\ (net[c].op = "connect" /\ net'[c].op = "idle"
                  /\ Len(callbacks) = net[c].used)
                 => /\ net[c].pos = net[c].used + 1
                    /\ \A i \in DOMAIN callbacks :
                           CopiesIn(callbacks[i].pattern, subscribed[c]) >= 1
          /\ net[c].op = "connect"
                 => /\ net'[c].op # "message"
                    /\ Len(dispatched') > Len(dispatched)
                           => dispatched'[Len(dispatched')].client # c
      ]_vars

\* the connection dropped and was acknowledged again with two registered
\* patterns, both were subscribed again, one request each, and the first
\* message of the new connection is being resolved
C15_Witness ==
    /\ netEvents.drops = 1 /\ client # 0 /\ link[client] = "up"
    /\ Len(callbacks) = 2 /\ subscribed[client] = SubscribeAll(callbacks)
    /\ net[client].op = "message" /\ net[client].used = 2

\* C16: while the for loop of an acknowledgment stands inside the registry,
\* no step changes the registry: register_callback and the loop of
\* _on_connect exclude each other.
C16_RegistryNotMutatedDuringResubscribe ==
    [][(\E c \in ClientIds : c \in loops /\ net[c].op = "connect")
           => callbacks' = callbacks]_vars

\* C17: a call of publish made while the client is not connected (no
\* connect() yet, connect() failed, acknowledgment outstanding or refused,
\* transport dropped, disconnect() called) returns False and hands nothing
\* to the transport.
C17_PublishWhileNotConnectedFails ==
    [][(/\ ret'.op = "publish" /\ apiCalls' = apiCalls + 1 /\ ~reg'.pending
        /\ ~connected)
           => (ret'.value = FALSE /\ ~ret'.handed /\ published' = published)]_vars

\* a publish went out on the live connection, the transport dropped, and the
\* publish called after the drop returned False with nothing handed over
C17_Witness ==
    /\ apiCalls = 3 /\ netEvents.drops = 1
    /\ ~connected /\ client # 0 /\ link[client] = "reconnecting"
    /\ CopiesIn(ManualCommand, published) = 1
    /\ ret = [op |-> "publish", value |-> FALSE, handed |-> FALSE]

\* C18: the status becomes connected only in a step in which a transport is
\* acknowledged with success; an acknowledgment that reports a failure
\* leaves the status as it was, begins no pass over the registry and adds
\* no subscription; every drop of a transport and every disconnect() of a
\* client leaves the status not connected.
C18_StatusFollowsTheTransport ==
    [][/\ (~connected /\ connected')
              => \E c \in ClientIds : link[c] # "up" /\ link'[c] = "up"
       /\ \A c \in ClientIds :
              /\ (link[c] # "refused" /\ link'[c] = "refused")
                     => /\ connected' = connected
                        /\ net'[c].op # "connect"
                        /\ \A p \in Patterns :
                               CopiesIn(p, subscribed'[c]) <= CopiesIn(p, subscribed[c])
              /\ (link[c] = "up" /\ link'[c] # "up") => ~connected'
              /\ (link[c] # "closed" /\ link'[c] = "closed") => ~connected'
      ]_vars

\* a connection that was up has dropped, and its next attempt was refused:
\* the status is not connected and the registered pattern is not subscribed
C18_Witness ==
    /\ netEvents.drops = 1 /\ client # 0 /\ link[client] = "refused"
    /\ ~connected /\ Len(callbacks) >= 1
    /\ subscribed[client] = EmptyBag /\ net[client].op = "idle"

\* C19: the if of register_callback issues one subscribe request for the
\* pattern just stored, on the client in use, when the status is connected,
\* and none when it is not connected or there is no client; the pattern is
\* in the registry either way.
C19_RegisterSubscribesOnlyWhenConnected ==
    [][(reg.pending /\ ~reg'.pending)
           => /\ \E i \in DOMAIN callbacks : callbacks[i].pattern = reg.pattern
              /\ IF connected /\ client # 0
                 THEN subscribed' = [subscribed EXCEPT ![client] =
                                         @ (+) SetToBag({reg.pattern})]
                 ELSE subscribed' = subscribed
      ]_vars

\* two patterns are registered and each is subscribed once on the live
\* connection; the register_callback that returned last found the status
\* connected and issued its subscribe request at once
C19_Witness ==
    /\ apiCalls = 3 /\ ~reg.pending /\ connected /\ client # 0
    /\ netEvents.drops = 0 /\ link[client] = "up" /\ net[client].op = "idle"
    /\ Len(callbacks) = 2 /\ subscribed[client] = SubscribeAll(callbacks)
    /\ ret = [op |-> "register_callback", value |-> TRUE, handed |-> TRUE]

\* C20: once a callback has raised, inline or in its own thread, the network
\* thread of the connection is still running, the status is still
\* connected and the transport up, and what was dispatched after it went to
\* a pattern that matches its topic.
C20_RaisingHandlerIsContained ==
    \A k \in DOMAIN dispatched :
        dispatched[k].outcome = "raised"
            => /\ dispatched[k].client \in loops
               /\ connected /\ link[dispatched[k].client] = "up"
               /\ net[dispatched[k].client].op \in {"idle", "message"}
               /\ \A l \in DOMAIN dispatched :
                      l > k => dispatched[l].pattern
                                   \in MatchingPatterns(dispatched[l].topic)

\* a plain callback raised on the first message, the second message was
\* dispatched all the same, to a coroutine callback that raised in its
\* thread, and the network thread is there for the next message
C20_Witness ==
    /\ Len(dispatched) = 2 /\ 1 \in loops /\ net[1].op = "idle"
    /\ dispatched[1].msg = 1 /\ ~dispatched[1].handler.is_async
    /\ dispatched[1].outcome = "raised"
    /\ dispatched[2].msg = 2 /\ dispatched[2].handler.is_async
    /\ dispatched[2].outcome = "raised"

\* C21: the step that dispatches a message to a coroutine callback leaves the
\* callback running and the network thread free for the next message; the
\* step that dispatches to a plain callback leaves the callback finished;
\* and the end of a running callback does not touch the network thread.
C21_AsyncDispatchDoesNotWait ==
    [][/\ Len(dispatched') > Len(dispatched)
              => LET e == dispatched'[Len(dispatched')]
                 IN  IF e.handler.is_async
                     THEN e.outcome = "running" /\ net'[e.client].op = "idle"
                     ELSE e.outcome \in {"returned", "raised"}
       /\ \A k \in DOMAIN dispatched :
              (dispatched[k].outcome = "running" /\ dispatched'[k].outcome # "running")
                  => net' = net /\ loops' = loops
      ]_vars

\* two messages have been dispatched to coroutine callbacks, the second
\* while the callback of the first was still running
C21_Witness ==
    /\ Len(dispatched) = 2 /\ dispatched[1].msg # dispatched[2].msg
    /\ dispatched[1].outcome = "running" /\ dispatched[2].outcome = "running"
    /\ net[1].op = "idle"

\* C22: on one connection the messages reach their callbacks in the order
\* of their arrival: the invocations stand in the order of the messages'
\* identifiers, a message being resolved arrived after every message
\* already dispatched, and a plain callback has finished before any later
\* message is resolved.  Only coroutine callbacks may end out of that order.
C22_ResolvedInArrivalOrder ==
    /\ \A k, l \in DOMAIN dispatched :
           k < l => /\ dispatched[k].msg < dispatched[l].msg
                    /\ ~dispatched[k].handler.is_async
                           => dispatched[k].outcome \in {"returned", "raised"}
    /\ \A k \in DOMAIN dispatched :
           net[dispatched[k].client].op = "message"
               => /\ dispatched[k].msg < net[dispatched[k].client].msg.id
                  /\ ~dispatched[k].handler.is_async
                         => dispatched[k].outcome \in {"returned", "raised"}

\* the coroutine callback of the second message has ended while the one of
\* the first message, dispatched before it, is still running
C22_Witness ==
    /\ Len(dispatched) = 2
    /\ dispatched[1].msg = 1 /\ dispatched[1].outcome = "running"
    /\ dispatched[2].msg = 2 /\ dispatched[2].handler.is_async
    /\ dispatched[2].outcome = "returned"

\* the segments of a topic or pattern, split at "/"
RECURSIVE Split(_)
Split(s) ==
    IF \A i \in DOMAIN s : s[i] # "/" THEN <<s>>
    ELSE LET i == CHOOSE j \in DOMAIN s :
                      s[j] = "/" /\ \A l \in 1..(j - 1) : s[l] # "/"
         IN  <<SubSeq(s, 1, i - 1)>> \o Split(SubSeq(s, i + 1, Len(s)))

\* matching by segments: a "+" segment stands for one segment that is not
\* empty, any other segment for itself, and the numbers of segments agree
\* unless the pattern ends in a "#" segment, which stands for what is left
\* of the topic, nothing included
SegmentsMatch(topic, pattern) ==
    LET T == Split(topic)
        P == Split(pattern)
        hash == P[Len(P)] = <<"#">>
        n == IF hash THEN Len(P) - 1 ELSE Len(P)
    IN  /\ IF hash THEN Len(T) >= n ELSE Len(T) = n
        /\ \A i \in 1..n : IF P[i] = <<"+">> THEN T[i] # <<>> ELSE T[i] = P[i]

\* the network thread is about to try the topic of a message on a pattern
Trying(c) ==
    /\ c \in loops /\ net[c].op = "message"
    /\ Len(callbacks) = net[c].used /\ net[c].pos <= Len(callbacks)

\* C23: the message is dispatched through the pattern it is tried on if and
\* only if its topic matches the pattern segment by segment.
C23_TopicMatchesIsSegmentWise ==
    [][Trying(1) => (Len(dispatched') > Len(dispatched)
                        <=> SegmentsMatch(net[1].msg.topic,
                                          callbacks[net[1].pos].pattern))]_vars

\* the pattern ends in a "#" segment and the topic is the pattern's prefix,
\* alone or followed by further segments
UnderHash(topic, pattern) ==
    /\ Len(pattern) > 2
    /\ SubSeq(pattern, Len(pattern) - 1, Len(pattern)) = <<"/", "#">>
    /\ LET prefix == SubSeq(pattern, 1, Len(pattern) - 2)
       IN  \/ topic = prefix
           \/ /\ Len(topic) > Len(prefix) + 1
              /\ SubSeq(topic, 1, Len(prefix) + 1) = prefix \o <<"/">>

\* C24: a message whose topic is the prefix of a pattern ending in "#", with
\* no further segment or with some, is dispatched through that pattern.
C24_HashMatchesZeroOrMoreSegments ==
    [][(Trying(1) /\ UnderHash(net[1].msg.topic, callbacks[net[1].pos].pattern))
           => Len(dispatched') > Len(dispatched)]_vars

\* C25: a message dispatched through a pattern without "+" and "#" has
\* exactly the pattern as its topic.
C25_LiteralSegmentsMatchExactly ==
    \A k \in DOMAIN dispatched :
        (\A i \in DOMAIN dispatched[k].pattern :
             dispatched[k].pattern[i] \notin {"+", "#"})
            => dispatched[k].topic = dispatched[k].pattern

\* C26: a request to the AC endpoint after which no command has gone out is
\* answered with an error, and leaves the stored AC state of every device
\* and the AC events as they were.
C26_FailedManualAcCommandPersistsNothing ==
    [][(/\ response'.seq = response.seq + 1
        /\ response'.endpoint = "ac_command"
        /\ published' = published)
           => /\ response'.status >= 400
              /\ acState' = acState
              /\ acEvents' = acEvents]_vars

\* on a live connection a valid request for a device with a stored AC state
\* was answered with an error that is not a rejection of the request: nothing
\* was sent, the stored state is the old one and no event was recorded
C26_Witness ==
    /\ connected /\ client # 0 /\ link[client] = "up"
    /\ response.endpoint = "ac_command" /\ response.status > 400
    /\ response.device_id \in ApiDevices
    /\ acState[response.device_id] = Some(AcStateRow([action |-> "off", temperature |-> 24]))
    /\ published = EmptyBag /\ acEvents = EmptyBag

\* the command methods and the topic each is to publish on for a device
SendOps ==
    {"send_ac_command", "send_led_command", "send_config_update", "send_reboot_command"}
TopicOf(op, device_id) ==
    device_id \o (CASE op = "send_ac_command" -> "/ac/command"
                    [] op = "send_led_command" -> "/led/command"
                    [] op = "send_config_update" -> "/config/update"
                    [] op = "send_reboot_command" -> "/system/command")

\* C27: a command method that returns True has published one message, on
\* the topic of its command for the device it was called for, and one that
\* returns False has published nothing.
C27_CommandsGoToTheirTopics ==
    [][(/\ ret'.op \in SendOps /\ apiCalls' = apiCalls + 1
        /\ (ret' # ret \/ published' # published))
           => IF ret'.value
              THEN \E d \in ApiDevices :
                       /\ response'.seq # response.seq => d = response'.device_id
                       /\ \E m \in BagToSet(published') :
                              /\ m.topic = TopicOf(ret'.op, d)
                              /\ published' = published (+) SetToBag({m})
              ELSE published' = published]_vars

\* the LED command, the configuration update and the reboot command of one
\* device have been published, each once and on its own topic
C27_Witness ==
    /\ ret.op \in SendOps /\ ret.value
    /\ \E d \in ApiDevices :
           published = SetToBag({SendLedCommand(d), SendConfigUpdate(d),
                                 SendRebootCommand(d)})
    /\ Cardinality({m.topic : m \in BagToSet(published)}) = 3

\* the row is active, its key of the tick's date is not in the dedup set, its
\* time is the tick's "HH:MM", and its weekday set is empty or holds the
\* tick's ISO weekday
SatisfiesAllFour(s) ==
    /\ s.is_active
    /\ ScheduleTodayId(s.id, curDate) \notin executedToday
    /\ s.time = curTime
    /\ DaysOfWeek(s).ok
    /\ DaysOfWeek(s).value = {} \/ curWeekday \in DaysOfWeek(s).value

\* C28: a command goes out, an event is stored or a key enters the dedup set
\* only for the row the tick stands at, and only when that row satisfies all
\* four conditions at this tick; so a tick in which no row does sends
\* nothing, stores nothing and adds no key.
C28_OnlyEligibleRulesFire ==
    [][/\ (task = "alive" /\ pc = "commit") => SatisfiesAllFour(ActiveSchedules[idx])
       /\ (\/ published' # published
           \/ acEvents' # acEvents
           \/ ~(executedToday' \subseteq executedToday))
              => /\ pc \in {"loop", "commit"} /\ idx \in DOMAIN ActiveSchedules
                 /\ LET s == ActiveSchedules[idx]
                    IN  /\ SatisfiesAllFour(s)
                        /\ published' \in {published,
                                           published (+) SetToBag({AcCommand(s, curDate)})}
                        /\ acEvents' \in {acEvents,
                                          acEvents (+) SetToBag({AcEventRow(s, curDate)})}
                        /\ executedToday' \subseteq
                               executedToday \cup {ScheduleTodayId(s.id, curDate)}
      ]_vars

\* a tick at 08:00 on a Saturday is over: the rule without weekdays has its
\* command, its event and its key; the rule of Monday to Friday and the rule
\* whose time is "8:00" have neither a command nor a key
C28_Witness ==
    /\ task = "alive" /\ pc = "sleep" /\ curWeekday = 6 /\ curTime = "08:00"
    /\ Commands(3, curDate) = 1 /\ Events(3, curDate) = 1
    /\ ScheduleTodayId(3, curDate) \in executedToday
    /\ \A i \in {1, 6} :
           /\ Commands(i, curDate) = 0
           /\ ScheduleTodayId(i, curDate) \notin executedToday

\* a step that is the head of a tick
TickBegins == pc # "fetch" /\ pc' = "fetch"

\* C29: the head of a tick reads the local date, records it, and empties the
\* dedup set when the date recorded before was another or none, and keeps
\* the set when it was the same; no other step records a date or takes a
\* key out; and once the tick is over the recorded date is the date the tick
\* read and every key of the set is a key of that date.
C29_DedupSetFollowsTheDate ==
    [][/\ TickBegins
              => /\ curDate' = now'.date
                 /\ lastCheckDate' = Some(curDate')
                 /\ IF lastCheckDate = None \/ lastCheckDate[1] # curDate'
                    THEN executedToday' = {}
                    ELSE executedToday' = executedToday
       /\ ~TickBegins
              => /\ lastCheckDate' = lastCheckDate
                 /\ executedToday \subseteq executedToday'
       /\ (task = "alive" /\ pc \in {"sleep", "errsleep"})
              => /\ lastCheckDate = Some(curDate)
                 /\ \A k \in executedToday :
                        \E i \in RowIds : k = ScheduleTodayId(i, curDate)
      ]_vars

\* the second tick of a date is over: the key the first tick of that date
\* added is still in the set, beside the key the second tick added
C29_Witness ==
    /\ task = "alive" /\ pc = "sleep" /\ prevTick = "done" /\ curTime = "08:01"
    /\ lastCheckDate = Some(curDate)
    /\ {ScheduleTodayId(3, curDate), ScheduleTodayId(4, curDate)} \subseteq executedToday
    /\ Commands(3, curDate) = 1 /\ Commands(4, curDate) = 1

\* the minute of the model's day a stored time stands for, "08:00" for
\* minute 0, "08:01" for minute 1 and so on; "8:00" is the "HH:MM" of no minute
MinuteOf(time) ==
    IF \E m \in 0..LastMinute : time = "08:0" \o Digit(m)
    THEN CHOOSE m \in 0..LastMinute : time = "08:0" \o Digit(m)
    ELSE -1

\* C30: the command of a rule for a date goes out only while the wall clock
\* stands at that date and at the rule's minute, and a tick in progress goes
\* by the clock it read at its head: a minute no tick has read is not made
\* up for by a later tick.
C30_MissedMinutesAreNotReplayed ==
    [][/\ published' # published
              => /\ now' = now
                 /\ \E i \in RowIds :
                        /\ published' = published (+)
                               SetToBag({AcCommand(ScheduleRows[i], now.date)})
                        /\ MinuteOf(ScheduleRows[i].time) = now.minute
       /\ (task = "alive" /\ pc \in {"fetch", "loop", "commit"})
              => curDate = now.date /\ MinuteOf(curTime) = now.minute
      ]_vars

\* nothing has failed and nothing was stopped; the tick after the one of
\* 08:00 came two minutes later, at 08:00 of the next day, and is over: the
\* rules of 08:01 have no command for the day before, on which the rule of
\* 08:00 has one
C30_Witness ==
    /\ disruptions = 0
    /\ task = "alive" /\ pc = "sleep" /\ prevTick = "done" /\ curTime = "08:00"
    /\ curDate - 1 \in Dates
    /\ Commands(3, curDate - 1) = 1 /\ Commands(3, curDate) = 1
    /\ Commands(4, curDate - 1) = 0 /\ Commands(5, curDate - 1) = 0

\* C31: whatever the order of the calls of start() and stop(), at most one
\* task of _run_scheduler exists that has neither been cancelled nor returned;
\* self.running is True exactly when there is one, and it is the task
\* self.task refers to.
C31_AtMostOneTickTask ==
    /\ tickTasks \in {0, 1}
    /\ running <=> tickTasks = 1
    /\ running <=> task = "alive"

\* the scheduler runs again after a stop(): a task is in its first tick, and
\* a command has been sent before, by the task that was cancelled
C31_Witness ==
    /\ running /\ task = "alive" /\ tickTasks = 1
    /\ pc = "fetch" /\ prevTick = "none" /\ published # EmptyBag

\* C32: from the return of stop() to the next start(), that is while
\* self.running is False, no command is sent, no event is recorded and the
\* dedup set is not modified.
C32_StoppedSchedulerDoesNothing ==
    [][~running => /\ published' = published
                   /\ acEvents' = acEvents
                   /\ executedToday' = executedToday]_vars

\* stop() cancelled the task while it awaited the fetch of the 08:00 tick; the
\* clock has reached 08:01 since, and rule 4, due at 08:01 every day, has not
\* been sent
C32_Witness ==
    /\ ~running /\ task = "cancelled" /\ pc = "fetch"
    /\ curTime = "08:00" /\ now = [date |-> curDate, minute |-> 1]
    /\ Commands(4, curDate) = 0

\* C33: start() and stop() leave the dedup set and the last-checked date as
\* they are, and a task in its first tick does not send a rule again that has
\* been sent for the date of the tick already, by a task stopped before.
C33_RestartDoesNotFireAgain ==
    [][/\ running' # running
              => executedToday' = executedToday /\ lastCheckDate' = lastCheckDate
       /\ (/\ task = "alive" /\ pc = "loop" /\ prevTick = "none"
           /\ Commands(ActiveSchedules[idx].id, curDate) >= 1)
              => published' = published
      ]_vars

\* C34: while the connection of self.client is Connected, once the pass of
\* its acknowledgment over the registry has ended and no register_callback
\* stands between its two statements, every registered pattern has been
\* subscribed on that connection at least once, whether it was registered
\* before the pass, during it or after it.
C34_RegisteredPatternIsSubscribed ==
    (/\ connected /\ client \in loops /\ link[client] = "up"
     /\ net[client].op # "connect" /\ ~reg.pending)
        => \A i \in DOMAIN callbacks :
               CopiesIn(callbacks[i].pattern, subscribed[client]) >= 1

\* C35: whatever calls of connect() and disconnect() were made, at most one
\* mqtt.Client has a running network thread.
C35_AtMostOneTransportClient == Cardinality(loops) <= 1

\* C36: once the network threads are at rest, the last inbound message, if
\* its topic matches a registered pattern, has been dispatched to exactly one
\* handler, however many segments the topic has.
C36_MatchingMessageIsDispatched ==
    (/\ netEvents.messages >= 1
     /\ \A c \in loops : net[c].op = "idle"
     /\ \E i \in DOMAIN callbacks :
            TopicMatches(netEvents.inbound.topic, callbacks[i].pattern))
        => Cardinality(InvocationsOf(netEvents.messages)) = 1

\* C37: a message whose payload is text but not JSON, on a topic of two
\* parts or more, enters the search for a handler with the text itself as
\* payload, and a handler is invoked with the payload the search began with;
\* a message whose payload does not decode invokes no handler, ends no
\* network thread and leaves the router as it was for the messages after it.
C37_TextIsDispatchedUndecodableIsContained ==
    [][/\ netEvents'.messages = netEvents.messages + 1
              => LET inb == netEvents'.inbound
                 IN  /\ inb.payload = "undecodable"
                            => /\ dispatched' = dispatched /\ loops' = loops
                               /\ net' = net /\ callbacks' = callbacks
                     /\ (inb.payload = "text" /\ TopicParts(inb.topic) >= 2)
                            => \E c \in loops :
                                   /\ net[c].op = "idle" /\ net'[c].op = "message"
                                   /\ net'[c].msg.topic = inb.topic
                                   /\ net'[c].msg.payload = "raw"
       /\ Len(dispatched') = Len(dispatched) + 1
              => LET e == dispatched'[Len(dispatched')]
                 IN  /\ net[e.client].op = "message"
                     /\ e.payload = net[e.client].msg.payload
                     /\ e.topic = net[e.client].msg.topic
      ]_vars

\* a text message was dispatched with its raw text; the message after it did
\* not decode and no handler was invoked for it
C37_Witness ==
    /\ netEvents.messages = 2 /\ netEvents.inbound.payload = "undecodable"
    /\ Len(dispatched) = 1 /\ dispatched[1].msg = 1 /\ dispatched[1].payload = "raw"
    /\ net[1].op = "idle" /\ 1 \in loops
====
